---- MODULE Spec2Model ----
(***************************************************************************)
(* chissor: the dictionary registry (Dicts), its engine calls, the error    *)
(* windows, the handlers of the UI and the batch runs (with_out_files),      *)
(* from src/src/main.rs.                                                    *)
(***************************************************************************)
EXTENDS Integers, Sequences, FiniteSets, TLC

(* ------------------------------------------------------------------ *)
(* Bounds and input alphabets                                          *)
(* ------------------------------------------------------------------ *)

\* new_dict is offered only while the registry holds fewer entries than this.
MaxDicts == 3

\* A vocabulary source holds at most this many lines.
MaxLines == 2

\* Words a vocabulary line or the word field may name.
Words == {"w"}

\* File names a picked dictionary file may carry.
FileNames == {"f"}

\* Texts of the frequency field, as sequences of characters.
BigText == <<"1","8","4","4","6","7","4","4","0","7","3","7","0","9","5","5","1","6","1","6">>
FreqTexts == {<<>>, <<"7">>, <<"0","7">>, <<"+","7">>, <<"-","1">>, <<"-","0">>, <<"x">>, BigText}

\* Texts of the tag field.
TagTexts == {"", "m"}

(* ------------------------------------------------------------------ *)
(* str::parse::<usize>                                                 *)
(* ------------------------------------------------------------------ *)

Digits == {"0","1","2","3","4","5","6","7","8","9"}

\* usize::MAX on a 64-bit target, as decimal digits.
UsizeMaxDigits == <<"1","8","4","4","6","7","4","4","0","7","3","7","0","9","5","5","1","6","1","5">>

DigitVal(c) ==
    CASE c = "0" -> 0 [] c = "1" -> 1 [] c = "2" -> 2 [] c = "3" -> 3 [] c = "4" -> 4
      [] c = "5" -> 5 [] c = "6" -> 6 [] c = "7" -> 7 [] c = "8" -> 8 [] c = "9" -> 9

RECURSIVE StripZeros(_)
StripZeros(ds) ==
    IF Len(ds) > 1 /\ Head(ds) = "0" THEN StripZeros(Tail(ds)) ELSE ds

\* ds and es are digit sequences of the same length: ds > es as numbers.
RECURSIVE DigitsGreater(_, _)
DigitsGreater(ds, es) ==
    IF ds = <<>> THEN FALSE
    ELSE IF DigitVal(Head(ds)) # DigitVal(Head(es))
         THEN DigitVal(Head(ds)) > DigitVal(Head(es))
         ELSE DigitsGreater(Tail(ds), Tail(es))

\* The value exceeds usize::MAX (checked_mul / checked_add fail in the parse loop).
Overflows(ds) ==
    LET n == StripZeros(ds) IN
    \/ Len(n) > Len(UsizeMaxDigits)
    \/ Len(n) = Len(UsizeMaxDigits) /\ DigitsGreater(n, UsizeMaxDigits)

\* parse of an unsigned integer: an optional leading "+", then one or more digits,
\* no sign alone, no "-", no overflow.  The value is kept as its canonical decimal.
parse_usize(text) ==
    LET body == IF text # <<>> /\ Head(text) = "+" THEN Tail(text) ELSE text IN
    IF text = <<>> \/ body = <<>> THEN [ok |-> FALSE, val |-> <<>>]
    ELSE IF \E i \in 1..Len(body) : body[i] \notin Digits THEN [ok |-> FALSE, val |-> <<>>]
    ELSE IF Overflows(body) THEN [ok |-> FALSE, val |-> <<>>]
    ELSE [ok |-> TRUE, val |-> StripZeros(body)]

(* ------------------------------------------------------------------ *)
(* The engine (jieba::Jieba) as the registry uses it                   *)
(* ------------------------------------------------------------------ *)

\* No record for a word.
NoRecord == [freq |-> <<"none">>, tag |-> ""]

\* The frequency the engine suggests when add_word is given none.
AutoFreq == <<"auto">>

\* An engine with an empty vocabulary.
EmptyJieba == [w \in Words |-> NoRecord]

\* One vocabulary line is its whitespace-separated tokens: <<word>>, <<word, freq>>,
\* <<word, freq, tag>>, or <<>> for a blank line.
LineOk(line) ==
    \/ Len(line) < 2
    \/ parse_usize(line[2]).ok

\* The record a well-formed line gives its word.
LineRecord(line) ==
    [freq |-> IF Len(line) >= 2 THEN parse_usize(line[2]).val ELSE <<"0">>,
     tag  |-> IF Len(line) >= 3 THEN line[3] ELSE ""]

\* Jieba::load_dict on a BufRead: the lines are read in order and each record is
\* inserted into the engine before the next line is read; the first malformed line
\* ends the call with an error.
RECURSIVE jieba_load_dict(_, _)
jieba_load_dict(jieba, src) ==
    IF src = <<>> THEN [ok |-> TRUE, jieba |-> jieba]
    ELSE LET line == Head(src) IN
         IF ~LineOk(line) THEN [ok |-> FALSE, jieba |-> jieba]
         ELSE IF line = <<>> THEN jieba_load_dict(jieba, Tail(src))
         ELSE jieba_load_dict([jieba EXCEPT ![line[1]] = LineRecord(line)], Tail(src))

\* Jieba::with_dict: a fresh engine loaded from the source, or an error.
jieba_with_dict(src) == jieba_load_dict(EmptyJieba, src)

\* Jieba::add_word(word, Option<usize>, Option<&str>).
jieba_add_word(jieba, w, fo, to) ==
    [jieba EXCEPT ![w] = [freq |-> IF fo.some THEN fo.val ELSE AutoFreq,
                          tag  |-> IF to.some THEN to.val ELSE ""]]

(* ------------------------------------------------------------------ *)
(* State                                                               *)
(* ------------------------------------------------------------------ *)

VARIABLES
    idx,      \* Dicts.idx, 0-based
    dicts,    \* Dicts.dicts: sequence of [name, jieba]
    last,     \* the last direct registry call and what it returned
    panic,    \* "" while running, else the assertion / expect that aborted the process
    word,     \* App.word
    freq,     \* App.freq
    tag,      \* App.tag
    error_windows,  \* App.error_windows: [count, windows]
    len0,     \* number of entries when a removal loop started
    removals, \* removals the loop has made
    ui,       \* App.input, App.output, App.separator, App.batch_mode
    batch,    \* a call of with_out_files: where it is and what it has done
    disk,     \* the files of the folder that outputs go to: name -> content
    displayed \* the error windows shown by the last show_all, as they were when shown

\* DictName
Embedded(kind) == [variant |-> "Embedded", val |-> kind]
File(name) == [variant |-> "File", val |-> name]

make_dict_static(kind) == [name |-> Embedded(kind), jieba |-> EmptyJieba]

\* impl Default for Dicts
DictsDefault ==
    [idx |-> 0,
     dicts |-> <<make_dict_static("Normal"), make_dict_static("Small"), make_dict_static("Big")>>]

\* The registry as one value.
Self == [idx |-> idx, dicts |-> dicts]

(* ------------------------------------------------------------------ *)
(* impl Dicts                                                          *)
(* ------------------------------------------------------------------ *)

\* Vec::remove(i), i 0-based and in range.
VecRemove(v, i) == SubSeq(v, 1, i) \o SubSeq(v, i + 2, Len(v))

\* Dicts::selected / selected_mut: dicts.get(idx); None makes the expect panic.
selected_is_some(self) == self.idx >= 0 /\ self.idx < Len(self.dicts)
selected(self) == self.dicts[self.idx + 1].jieba

\* new_dict that also moves the selection to the new entry.
new_dict_selects(self, name, src) ==
    LET r == jieba_with_dict(src) IN
    IF ~r.ok THEN [res |-> "err", self |-> self]
    ELSE [res |-> "ok",
          self |-> [idx |-> Len(self.dicts),
                    dicts |-> Append(self.dicts, [name |-> File(name), jieba |-> r.jieba])]]

\* new_dict that pushes the entry before looking at the engine's result.
new_dict_pushes_first(self, name, src) ==
    LET r == jieba_with_dict(src) IN
    [res |-> IF r.ok THEN "ok" ELSE "err",
     self |-> [self EXCEPT !.dicts = Append(@, [name |-> File(name), jieba |-> r.jieba])]]

\* Dicts::new_dict
new_dict(self, name, src) ==
    LET r == jieba_with_dict(src) IN
    IF ~r.ok THEN [res |-> "err", self |-> self]
    ELSE [res |-> "ok",
          self |-> [self EXCEPT !.dicts = Append(@, [name |-> File(name), jieba |-> r.jieba])]]

\* load_dict that loads into the first entry, whichever is selected.
load_dict_into_first(self, src) ==
    LET r == jieba_load_dict(self.dicts[1].jieba, src) IN
    [res |-> IF r.ok THEN "ok" ELSE "err",
     self |-> [self EXCEPT !.dicts[1].jieba = r.jieba]]

\* Dicts::load_dict: the selected engine is handed to Jieba::load_dict by &mut.
load_dict(self, src) ==
    IF ~selected_is_some(self) THEN [res |-> "panic", self |-> self]
    ELSE LET r == jieba_load_dict(selected(self), src) IN
         [res |-> IF r.ok THEN "ok" ELSE "err",
          self |-> [self EXCEPT !.dicts[self.idx + 1].jieba = r.jieba]]

\* add_word that takes an unparsable frequency as no frequency.
add_word_lenient(self, w, f, t) ==
    LET p == parse_usize(f)
        fo == IF f = <<>> \/ ~p.ok THEN [some |-> FALSE, val |-> <<>>]
              ELSE [some |-> TRUE, val |-> p.val]
        to == IF t = "" THEN [some |-> FALSE, val |-> ""] ELSE [some |-> TRUE, val |-> t]
    IN [res |-> "ok",
        self |-> [self EXCEPT !.dicts[self.idx + 1].jieba = jieba_add_word(@, w, fo, to)]]

\* add_word that returns Ok without handing the word to the engine.
add_word_forgets(self, w, f, t) ==
    LET p == parse_usize(f) IN
    IF f # <<>> /\ ~p.ok THEN [res |-> "err", self |-> self]
    ELSE [res |-> "ok", self |-> self]

\* Dicts::add_word(word, freq, tag)
add_word(self, w, f, t) ==
    LET p == parse_usize(f) IN
    IF f # <<>> /\ ~p.ok THEN [res |-> "err", self |-> self]
    ELSE IF ~selected_is_some(self) THEN [res |-> "panic", self |-> self]
    ELSE LET fo == IF f = <<>> THEN [some |-> FALSE, val |-> <<>>]
                   ELSE [some |-> TRUE, val |-> p.val]
             to == IF t = "" THEN [some |-> FALSE, val |-> ""]
                   ELSE [some |-> TRUE, val |-> t]
         IN [res |-> "ok",
             self |-> [self EXCEPT !.dicts[self.idx + 1].jieba =
                                       jieba_add_word(@, w, fo, to)]]

\* can_remove_dict as "not empty".
can_remove_dict_nonempty(self) == Len(self.dicts) # 0

\* can_remove_dict that keeps two entries.
can_remove_dict_two(self) == Len(self.dicts) > 2

\* Dicts::can_remove_dict
can_remove_dict(self) == Len(self.dicts) # 1

\* remove_dict that returns quietly when only one entry is left.
remove_dict_silent(self) ==
    IF Len(self.dicts) = 1 THEN [res |-> "ok", self |-> self]
    ELSE LET d == VecRemove(self.dicts, self.idx) IN
         [res |-> "ok",
          self |-> [idx |-> IF self.idx = Len(d) THEN self.idx - 1 ELSE self.idx,
                    dicts |-> d]]

\* remove_dict without the adjustment of idx.
remove_dict_keeps_idx(self) ==
    IF Len(self.dicts) = 1 THEN [res |-> "panic", self |-> self]
    ELSE [res |-> "ok", self |-> [self EXCEPT !.dicts = VecRemove(@, self.idx)]]

\* remove_dict that always steps the selection back when it can.
remove_dict_steps_back(self) ==
    IF Len(self.dicts) = 1 THEN [res |-> "panic", self |-> self]
    ELSE [res |-> "ok",
          self |-> [idx |-> IF self.idx > 0 THEN self.idx - 1 ELSE 0,
                    dicts |-> VecRemove(self.dicts, self.idx)]]

\* Dicts::remove_dict: the assertion, then Vec::remove (which panics out of range)
\* and the adjustment of idx.
remove_dict(self) ==
    IF ~can_remove_dict(self) THEN [res |-> "panic", self |-> self]
    ELSE IF ~selected_is_some(self) THEN [res |-> "panic", self |-> self]
    ELSE LET d == VecRemove(self.dicts, self.idx) IN
         IF self.idx = Len(d)
         THEN [res |-> "ok", self |-> [idx |-> self.idx - 1, dicts |-> d]]
         ELSE [res |-> "ok", self |-> [idx |-> self.idx, dicts |-> d]]

\* Dicts::show_all: one radio button per entry; clicking the i-th sets idx.
radio_value(self, i) == [self EXCEPT !.idx = i]

(* ------------------------------------------------------------------ *)
(* Inputs                                                              *)
(* ------------------------------------------------------------------ *)

\* Tag tokens of a vocabulary line (a token is never empty).
TagTokens == TagTexts \ {""}

\* The lines a source is made of: a word with frequency and tag, and a word whose
\* frequency is no number.
Lines ==
    {<<w, <<"7">>, t>> : w \in Words, t \in TagTokens}
        \cup {<<w, <<"x">>>> : w \in Words}

RECURSIVE SeqsUpTo(_, _)
SeqsUpTo(S, n) ==
    IF n = 0 THEN {<<>>}
    ELSE LET shorter == SeqsUpTo(S, n - 1) IN
         shorter \cup {Append(s, x) : s \in {t \in shorter : Len(t) = n - 1}, x \in S}

Sources == SeqsUpTo(Lines, MaxLines)

(* ------------------------------------------------------------------ *)
(* Texts, the engine's segmentation and the four operations            *)
(* ------------------------------------------------------------------ *)

\* Characters that str::trim strips.
Whitespace == {" ", "\n"}

RECURSIVE trim_start(_)
trim_start(s) ==
    IF s # <<>> /\ Head(s) \in Whitespace THEN trim_start(Tail(s)) ELSE s

RECURSIVE trim_end(_)
trim_end(s) ==
    IF s # <<>> /\ s[Len(s)] \in Whitespace THEN trim_end(SubSeq(s, 1, Len(s) - 1)) ELSE s

\* str::trim
trim(s) == trim_end(trim_start(s))

\* Jieba::cut, cut_for_search and cut_all give the segments of the input in order;
\* here every character is a segment of its own.
jieba_cut(jieba, input) == [i \in 1..Len(input) |-> <<input[i]>>]

\* The tag Jieba::tag gives a segment: the tag its record holds, else "x".
jieba_tag_of(jieba, seg) ==
    IF Len(seg) = 1 /\ seg[1] \in Words /\ jieba[seg[1]] # NoRecord /\ jieba[seg[1]].tag # ""
    THEN jieba[seg[1]].tag
    ELSE "x"

\* format!("{word} {tag}") on every Tag of Jieba::tag
jieba_tag(jieba, input) ==
    [i \in 1..Len(input) |-> <<input[i], " ", jieba_tag_of(jieba, <<input[i]>>)>>]

\* [String]::join
RECURSIVE join(_, _)
join(segs, sep) ==
    IF segs = <<>> THEN <<>>
    ELSE IF Len(segs) = 1 THEN Head(segs)
    ELSE Head(segs) \o sep \o join(Tail(segs), sep)

\* get_separator that hands back the configured string as it is, empty or not.
get_separator_verbatim(separator) == separator

\* App::get_separator
get_separator(separator) == IF separator = <<>> THEN <<"\n">> ELSE separator

\* App::segment_one, segment_granular_one and search_one
segment_one(self, separator, input) ==
    join(jieba_cut(selected(self), input), get_separator(separator))

\* App::tag_one
tag_one(self, separator, input) ==
    join(jieba_tag(selected(self), input), get_separator(separator))

\* The four operations, by the name their error windows carry.
Operations == {"segment", "segment-granular", "search", "tag"}

\* The closure a batch handler hands to with_out_files, and the call of the
\* interactive handler.
operation_one(op, self, separator, input) ==
    IF op = "tag" THEN tag_one(self, separator, input)
    ELSE segment_one(self, separator, input)

\* Separators the user may have typed.
Separators == {<<>>, <<" ", "/", " ">>}

\* impl Default for App (derive): input, output, separator, batch_mode
UiDefault == [input |-> <<>>, output |-> <<>>, separator |-> <<>>, batch_mode |-> FALSE]

(* ------------------------------------------------------------------ *)
(* Files, and with_out_files statement by statement                    *)
(* ------------------------------------------------------------------ *)

\* A batch is given at most this many input files.
MaxInputs == 3

\* A path with no final component (Path::file_name is None).
NoFileName == "<none>"

\* Base names of files, and the files of the output folder: name -> content.
DiskNames == {"a", "b"}
Absent == <<"<absent>">>
OldText == <<"o", "\n">>
DiskEmpty == [n \in DiskNames |-> Absent]
Disks == [DiskNames -> {Absent, OldText}]

\* A picked input file: its base name, whether it can be read and what it holds,
\* and whether the write to its output file will go through.
InFile(n, r, t, w) == [file_name |-> n, readable |-> r, text |-> t, write_ok |-> w]

InFiles ==
    {InFile("a", TRUE, <<" ", "w", "\n">>, TRUE),
     InFile("b", TRUE, <<"w", "w">>, TRUE),
     InFile("a", FALSE, <<>>, TRUE),
     InFile("b", TRUE, <<"w", "w">>, FALSE),
     InFile(NoFileName, TRUE, <<"w", "w">>, TRUE)}

\* What pick_files hands back: nothing (cancelled), or one or more paths.
NoFiles == [some |-> FALSE, paths |-> <<>>]
FileChoices ==
    {NoFiles} \cup {[some |-> TRUE, paths |-> ps] : ps \in SeqsUpTo(InFiles, MaxInputs) \ {<<>>}}

\* fs::read_to_string
read_to_string(file) == [ok |-> file.readable, text |-> file.text]

\* File::create in place of create_new: an existing file is truncated.
create_truncates(d, name) == [ok |-> TRUE, disk |-> [d EXCEPT ![name] = <<>>]]

\* fs::File::create_new: fails if the file exists, else creates it empty.
create_new(d, name) ==
    IF d[name] # Absent THEN [ok |-> FALSE, disk |-> d]
    ELSE [ok |-> TRUE, disk |-> [d EXCEPT ![name] = <<>>]]

\* write! in place of writeln!: no newline after the text.
write_no_newline(d, name, text, ok) ==
    IF ok THEN [ok |-> TRUE, disk |-> [d EXCEPT ![name] = text]]
    ELSE [ok |-> FALSE, disk |-> d]

\* writeln!(&mut out_file, "{out}"): the text and a newline, or an error that
\* leaves the created file empty.
writeln(d, name, text, ok) ==
    IF ok THEN [ok |-> TRUE, disk |-> [d EXCEPT ![name] = text \o <<"\n">>]]
    ELSE [ok |-> FALSE, disk |-> d]

\* No call of with_out_files.
BatchIdle ==
    [pc |-> "idle", op |-> "", in_paths |-> <<>>, k |-> 0, input |-> <<>>,
     res |-> "", log |-> <<>>, before |-> DiskEmpty]

\* A call of with_out_files for an operation, on entry.
BatchEntry(op, d) == [BatchIdle EXCEPT !.pc = "pick_files", !.op = op, !.before = d]

\* An error that is passed over: the loop goes on with the next input.
question_mark_goes_on(b) ==
    IF b.k = Len(b.in_paths) THEN [b EXCEPT !.pc = "done", !.res = "err"]
    ELSE [b EXCEPT !.pc = "read", !.k = @ + 1]

\* The ? operator on an Err: with_out_files returns the error.
question_mark(b) == [b EXCEPT !.pc = "done", !.res = "err"]

\* A file-system call is made for the k-th input.
logged(b, call) == [b EXCEPT !.log = Append(@, <<call, b.k>>)]

\* let Some(in_paths) = pick_files() else { return Ok(()) }
wof_pick_files(b, choice) ==
    IF ~choice.some THEN [b EXCEPT !.pc = "done", !.res = "ok"]
    ELSE [b EXCEPT !.pc = "pick_folder", !.in_paths = choice.paths]

\* pick_folder whose None is taken for an error.
wof_pick_folder_strict(b, some) ==
    IF ~some THEN [b EXCEPT !.pc = "done", !.res = "err"]
    ELSE IF b.in_paths = <<>> THEN [b EXCEPT !.pc = "done", !.res = "ok"]
    ELSE [b EXCEPT !.pc = "read", !.k = 1]

\* let Some(save_path) = pick_folder() else { return Ok(()) }, then the loop's entry
wof_pick_folder(b, some) ==
    IF ~some THEN [b EXCEPT !.pc = "done", !.res = "ok"]
    ELSE IF b.in_paths = <<>> THEN [b EXCEPT !.pc = "done", !.res = "ok"]
    ELSE [b EXCEPT !.pc = "read", !.k = 1]

\* A read whose error is passed over: the loop turn goes on with an empty text.
wof_read_lenient(b) ==
    LET file == b.in_paths[b.k] IN
    IF file.file_name = NoFileName THEN [b EXCEPT !.pc = "done", !.res = "panic"]
    ELSE LET r == read_to_string(file) IN
         [logged(b, "read") EXCEPT !.pc = "create",
                                   !.input = IF r.ok THEN trim(r.text) ELSE <<>>]

\* in_path.file_name().expect(..), fs::read_to_string(in_path)? and input.trim()
wof_read(b) ==
    LET file == b.in_paths[b.k] IN
    IF file.file_name = NoFileName THEN [b EXCEPT !.pc = "done", !.res = "panic"]
    ELSE LET r == read_to_string(file) IN
         IF ~r.ok THEN question_mark(logged(b, "read"))
         ELSE [logged(b, "read") EXCEPT !.pc = "create", !.input = trim(r.text)]

\* fs::File::create_new(out_path)?
wof_create(b, d) ==
    LET c == create_new(d, b.in_paths[b.k].file_name) IN
    IF ~c.ok THEN [batch |-> question_mark(logged(b, "create")), disk |-> c.disk]
    ELSE [batch |-> [logged(b, "create") EXCEPT !.pc = "write"], disk |-> c.disk]

\* writeln!(&mut out_file, "{out}", out = func(input))?, then the next input or
\* Ok(()) after the last
wof_write(b, d, self, separator) ==
    LET file == b.in_paths[b.k]
        w == writeln(d, file.file_name, operation_one(b.op, self, separator, b.input),
                     file.write_ok)
    IN IF ~w.ok THEN [batch |-> question_mark(logged(b, "write")), disk |-> w.disk]
       ELSE IF b.k = Len(b.in_paths)
            THEN [batch |-> [logged(b, "write") EXCEPT !.pc = "done", !.res = "ok"],
                  disk |-> w.disk]
            ELSE [batch |-> [logged(b, "write") EXCEPT !.pc = "read", !.k = @ + 1],
                  disk |-> w.disk]

(* ------------------------------------------------------------------ *)
(* The registry driven call by call (as tests::dicts drives it)        *)
(* ------------------------------------------------------------------ *)

vars == <<idx, dicts, last, panic, word, freq, tag, error_windows, len0, removals,
          ui, batch, disk, displayed>>
appVars == <<word, freq, tag, error_windows, displayed>>
loopVars == <<len0, removals>>
ioVars == <<ui, batch, disk>>

\* ErrorWindows.count is a u32: it is kept as two 16-bit halves, high and low.
HalfMax == 65535

\* The u32 of a small number.
u32(n) == [hi |-> 0, lo |-> n]

\* u32::MAX
U32Max == [hi |-> HalfMax, lo |-> HalfMax]

\* a < b on u32
u32_less(a, b) == a.hi < b.hi \/ (a.hi = b.hi /\ a.lo < b.lo)

\* c + 1 on u32 as a build without overflow checks computes it: u32::MAX + 1 is 0.
wrapping_succ(c) ==
    IF c.lo < HalfMax THEN [c EXCEPT !.lo = @ + 1]
    ELSE IF c.hi < HalfMax THEN [hi |-> c.hi + 1, lo |-> 0]
    ELSE [hi |-> 0, lo |-> 0]

\* egui::Id::new(count): a hash of the count, equal for equal counts.
Id_new(c) == [hashed |-> c]

\* impl Default for ErrorWindows (derive)
ErrorWindowsDefault == [count |-> u32(0), windows |-> <<>>]

\* impl Default for App (derive): the fields the dictionary panel uses.
AppDefault ==
    /\ idx = DictsDefault.idx
    /\ dicts = DictsDefault.dicts
    /\ word = ""
    /\ freq = <<>>
    /\ tag = ""
    /\ error_windows = ErrorWindowsDefault
    /\ ui = UiDefault

\* No with_out_files call is under way, the output folder is empty and no window
\* has been shown.
IoIdle ==
    /\ batch = BatchIdle
    /\ disk = DiskEmpty
    /\ displayed = <<>>

Running == panic = ""

\* What a call leaves behind: the registry, the call's name and result, and the
\* abort if it panicked.
Returns(op, r) ==
    /\ idx' = r.self.idx
    /\ dicts' = r.self.dicts
    /\ last' = [op |-> op, res |-> r.res]
    /\ panic' = IF r.res = "panic" THEN op ELSE ""

Init ==
    /\ AppDefault
    /\ last = [op |-> "default", res |-> "ok"]
    /\ panic = ""
    /\ len0 = Len(dicts)
    /\ removals = 0
    /\ IoIdle

NewDict(name, src) ==
    /\ Running
    /\ Len(dicts) < MaxDicts
    /\ Returns("new_dict", new_dict(Self, name, src))
    /\ UNCHANGED <<appVars, loopVars, ioVars>>

LoadDict(src) ==
    /\ Running
    /\ Returns("load_dict", load_dict(Self, src))
    /\ UNCHANGED <<appVars, loopVars, ioVars>>

AddWord(w, f, t) ==
    /\ Running
    /\ Returns("add_word", add_word(Self, w, f, t))
    /\ UNCHANGED <<appVars, loopVars, ioVars>>

\* The caller checks can_remove_dict first (tests::dicts, show_dict_panel).
RemoveDict ==
    /\ Running
    /\ can_remove_dict(Self)
    /\ Returns("remove_dict", remove_dict(Self))
    /\ UNCHANGED <<appVars, loopVars, ioVars>>

Select(i) ==
    /\ Running
    /\ Returns("select", [res |-> "ok", self |-> radio_value(Self, i)])
    /\ UNCHANGED <<appVars, loopVars, ioVars>>

Next ==
    \/ \E name \in FileNames, src \in Sources : NewDict(name, src)
    \/ \E src \in Sources : LoadDict(src)
    \/ \E w \in Words, f \in FreqTexts, t \in TagTexts : AddWord(w, f, t)
    \/ RemoveDict
    \/ \E i \in 0..(Len(dicts) - 1) : Select(i)

Spec == Init /\ [][Next]_vars

(* ------------------------------------------------------------------ *)
(* The registry driven by a caller that does not check can_remove_dict *)
(* ------------------------------------------------------------------ *)

RemoveDictUnchecked ==
    /\ Running
    /\ Returns("remove_dict", remove_dict(Self))
    /\ UNCHANGED <<appVars, loopVars, ioVars>>

NextUnchecked ==
    \/ \E name \in FileNames, src \in Sources : NewDict(name, src)
    \/ \E src \in Sources : LoadDict(src)
    \/ \E w \in Words, f \in FreqTexts, t \in TagTexts : AddWord(w, f, t)
    \/ RemoveDictUnchecked
    \/ \E i \in 0..(Len(dicts) - 1) : Select(i)

SpecUnchecked == Init /\ [][NextUnchecked]_vars

(* ------------------------------------------------------------------ *)
(* The removal loop of tests::dicts, from any registry                 *)
(* ------------------------------------------------------------------ *)

\* An engine that holds a record.
LoadedJieba == [w \in Words |-> [freq |-> <<"7">>, tag |-> "m"]]

RECURSIVE SubSeqsOf(_)
SubSeqsOf(s) ==
    IF s = <<>> THEN {<<>>}
    ELSE LET rest == SubSeqsOf(Tail(s)) IN rest \cup {<<Head(s)>> \o t : t \in rest}

\* The registries the loop may start from: what is left of the built-in entries, in
\* their order, then created entries.
LoopRegistries ==
    {e \o f : e \in SubSeqsOf(DictsDefault.dicts),
              f \in SeqsUpTo({[name |-> File(n), jieba |-> j] :
                                 n \in FileNames, j \in {EmptyJieba, LoadedJieba}},
                             MaxDicts)}

LoopInit ==
    /\ \E r \in {x \in LoopRegistries : Len(x) >= 1 /\ Len(x) <= MaxDicts} :
          /\ dicts = r
          /\ idx \in 0..(Len(r) - 1)
          /\ len0 = Len(r)
    /\ removals = 0
    /\ last = [op |-> "default", res |-> "ok"]
    /\ panic = ""
    /\ word = ""
    /\ freq = <<>>
    /\ tag = ""
    /\ error_windows = ErrorWindowsDefault
    /\ ui = UiDefault
    /\ IoIdle

\* One turn of the loop: can_remove_dict is checked, then remove_dict is called.
LoopRemove ==
    /\ Running
    /\ can_remove_dict(Self)
    /\ Returns("remove_dict", remove_dict(Self))
    /\ removals' = removals + 1
    /\ UNCHANGED <<appVars, len0, ioVars>>

LoopNext == LoopRemove

\* The loop runs on until its condition fails: nothing else is scheduled.
SpecLoop == LoopInit /\ [][LoopNext]_vars /\ WF_vars(LoopRemove)

(* ------------------------------------------------------------------ *)
(* impl ErrorWindows                                                   *)
(* ------------------------------------------------------------------ *)

\* Error records are taken only while fewer than this many have been made.
MaxErrors == 1

\* self.count += 1 overflows: a build with overflow checks panics there, a build
\* without them wraps.
add_overflows(ew) == ew.count = U32Max

\* ErrorWindows::add where it returns (the message text is not kept)
ErrorWindows_add(ew, what) ==
    [count |-> wrapping_succ(ew.count),
     windows |-> Append(ew.windows,
                        [id |-> Id_new(ew.count), open |-> TRUE, what |-> what])]

\* Vec::retain that stops at the first closed window and drops the rest.
RECURSIVE retain_until_closed(_)
retain_until_closed(v) ==
    IF v = <<>> THEN <<>>
    ELSE IF Head(v).open THEN <<Head(v)>> \o retain_until_closed(Tail(v))
    ELSE <<>>

\* Vec::retain with the closure |ErrorWindow { open, .. }| *open
RECURSIVE retain_open(_)
retain_open(v) ==
    IF v = <<>> THEN <<>>
    ELSE IF Head(v).open THEN <<Head(v)>> \o retain_open(Tail(v))
    ELSE retain_open(Tail(v))

\* ErrorWindows::cleanup
ErrorWindows_cleanup(ew) == [ew EXCEPT !.windows = retain_open(@)]

\* ErrorWindows::add in a build with overflow checks, when self.count += 1
\* overflows: the window has been pushed and the process panics.
ErrorWindows_add_checked(ew, what) ==
    [ew EXCEPT !.windows = Append(@, [id |-> Id_new(ew.count), open |-> TRUE,
                                      what |-> what])]

\* The windows with those at the given positions closed by the user
\* (ErrorWindow::show hands &mut self.open to the window).
closed_at(v, closing) == [k \in 1..Len(v) |-> [v[k] EXCEPT !.open = @ /\ k \notin closing]]

\* show_all with no cleanup before the windows are shown.
ErrorWindows_show_all_stale(ew, closing) ==
    [displayed |-> ew.windows,
     ew |-> [ew EXCEPT !.windows = closed_at(@, closing)]]

\* ErrorWindows::show_all: cleanup, then show on every window left; the user may
\* close windows that are shown.
ErrorWindows_show_all(ew, closing) ==
    LET c == ErrorWindows_cleanup(ew) IN
    [displayed |-> c.windows,
     ew |-> [c EXCEPT !.windows = closed_at(@, closing)]]

(* ------------------------------------------------------------------ *)
(* impl App: the dictionary panel                                      *)
(* ------------------------------------------------------------------ *)

\* What the file dialog hands back: nothing (cancelled), or a path, with whether
\* File::open succeeds on it and the lines read from it.
NoPick == [some |-> FALSE, file_name |-> NoFileName, open_ok |-> FALSE, src |-> <<>>]

PanelSources == {src \in Sources : Len(src) <= 1}

Picks ==
    {NoPick} \cup
    {[some |-> TRUE, file_name |-> n, open_ok |-> o, src |-> sc] :
        n \in FileNames \cup {NoFileName}, o \in BOOLEAN, sc \in PanelSources}

\* What the user may type into the word and frequency fields.
WordTexts == {""} \cup Words
PanelFreqTexts == {<<>>, <<"x">>}

\* The result of a handler: the abort if any, the registry and the error windows.
Handled(p, self, ew) == [panic |-> p, self |-> self, ew |-> ew]

\* App::new_dict with with_pick_file
App_new_dict(self, ew, pick) ==
    IF ~pick.some THEN Handled("", self, ew)
    ELSE IF pick.file_name = NoFileName THEN Handled("file_name", self, ew)
    ELSE IF ~pick.open_ok THEN Handled("", self, ErrorWindows_add(ew, "new-dict.what"))
    ELSE LET r == new_dict(self, pick.file_name, pick.src) IN
         Handled("", r.self,
                 IF r.res = "err" THEN ErrorWindows_add(ew, "new-dict.what") ELSE ew)

\* App::load_dict with with_pick_file
App_load_dict(self, ew, pick) ==
    IF ~pick.some THEN Handled("", self, ew)
    ELSE IF ~pick.open_ok THEN Handled("", self, ErrorWindows_add(ew, "load-dict.what"))
    ELSE LET r == load_dict(self, pick.src) IN
         Handled(IF r.res = "panic" THEN "selected_mut" ELSE "", r.self,
                 IF r.res = "err" THEN ErrorWindows_add(ew, "load-dict.what") ELSE ew)

\* App::can_add_word
can_add_word(w) == w # ""

\* App::add_word
App_add_word(self, ew, w, f, t) ==
    IF ~can_add_word(w) THEN Handled("add_word", self, ew)
    ELSE LET r == add_word(self, w, f, t) IN
         Handled(IF r.res = "panic" THEN "selected_mut" ELSE "", r.self,
                 IF r.res = "err" THEN ErrorWindows_add(ew, "add-word.what") ELSE ew)

\* The remove button as always enabled.
remove_enabled_always(self) == TRUE

\* show_dict_panel: add_enabled(self.dicts.can_remove_dict(), remove button)
remove_enabled(self) == can_remove_dict(self)

\* show_dict_panel: the remove button's click calls self.dicts.remove_dict()
App_remove_dict(self, ew) ==
    LET r == remove_dict(self) IN
    Handled(IF r.res = "panic" THEN "remove_dict" ELSE "", r.self, ew)

Cleaned == ErrorWindows_cleanup(error_windows)

\* ErrorWindows::show_all after its cleanup: show is called on every window left,
\* in order.
shown(ew) == ew.windows

\* One App::update with one event in it: error_windows.show_all first cleans up,
\* then the panels run and the event's handler is called.
Update(h) ==
    /\ idx' = h.self.idx
    /\ dicts' = h.self.dicts
    /\ error_windows' = h.ew
    /\ panic' = h.panic
    /\ displayed' = shown(Cleaned)

ClickNewDict(pick) ==
    /\ Running
    /\ Len(dicts) < MaxDicts
    /\ u32_less(error_windows.count, u32(MaxErrors))
    /\ Update(App_new_dict(Self, Cleaned, pick))
    /\ UNCHANGED <<word, freq, tag, last, loopVars, ioVars>>

ClickLoadDict(pick) ==
    /\ Running
    /\ u32_less(error_windows.count, u32(MaxErrors))
    /\ Update(App_load_dict(Self, Cleaned, pick))
    /\ UNCHANGED <<word, freq, tag, last, loopVars, ioVars>>

ClickAddWord ==
    /\ Running
    /\ can_add_word(word)
    /\ u32_less(error_windows.count, u32(MaxErrors))
    /\ Update(App_add_word(Self, Cleaned, word, freq, tag))
    /\ UNCHANGED <<word, freq, tag, last, loopVars, ioVars>>

ClickRemoveDict ==
    /\ Running
    /\ remove_enabled(Self)
    /\ Update(App_remove_dict(Self, Cleaned))
    /\ UNCHANGED <<word, freq, tag, last, loopVars, ioVars>>

\* Dicts::show_all: a radio button is clicked.
ClickRadio(i) ==
    /\ Running
    /\ Update(Handled("", radio_value(Self, i), Cleaned))
    /\ UNCHANGED <<word, freq, tag, last, loopVars, ioVars>>

\* The word and frequency fields are edited.
EditWord(w) ==
    /\ Running
    /\ word' = w
    /\ Update(Handled("", Self, Cleaned))
    /\ UNCHANGED <<freq, tag, last, loopVars, ioVars>>

EditFreq(f) ==
    /\ Running
    /\ freq' = f
    /\ Update(Handled("", Self, Cleaned))
    /\ UNCHANGED <<word, tag, last, loopVars, ioVars>>

\* ErrorWindow::show: the user closes the k-th window shown in this update.
CloseWindow(k) ==
    /\ Running
    /\ Update(Handled("", Self, [Cleaned EXCEPT !.windows[k].open = FALSE]))
    /\ UNCHANGED <<word, freq, tag, last, loopVars, ioVars>>

PanelNext ==
    \/ \E pick \in Picks : ClickNewDict(pick)
    \/ \E pick \in Picks : ClickLoadDict(pick)
    \/ ClickAddWord
    \/ ClickRemoveDict
    \/ \E i \in 0..(Len(dicts) - 1) : ClickRadio(i)
    \/ \E w \in WordTexts : EditWord(w)
    \/ \E f \in PanelFreqTexts : EditFreq(f)
    \/ \E k \in 1..Len(Cleaned.windows) : CloseWindow(k)

SpecPanel == Init /\ [][PanelNext]_vars

(* ------------------------------------------------------------------ *)
(* impl App: import, export, the operations and their batch forms      *)
(* ------------------------------------------------------------------ *)

\* with_out_files from a statement on to its return.
RECURSIVE wof_run(_, _, _, _)
wof_run(b, d, self, separator) ==
    IF b.pc = "read" THEN wof_run(wof_read(b), d, self, separator)
    ELSE IF b.pc = "create"
         THEN LET r == wof_create(b, d) IN wof_run(r.batch, r.disk, self, separator)
    ELSE IF b.pc = "write"
         THEN LET r == wof_write(b, d, self, separator) IN
              wof_run(r.batch, r.disk, self, separator)
    ELSE [batch |-> b, disk |-> d]

\* with_out_files as one call: both dialogs, then the loop.
with_out_files(op, d, self, separator, choice, some) ==
    LET picked == wof_pick_files(BatchEntry(op, d), choice)
        entered == IF picked.pc = "pick_folder" THEN wof_pick_folder(picked, some)
                   ELSE picked
    IN wof_run(entered, d, self, separator)

\* What the file dialog of import hands back: nothing, or a path that can or cannot
\* be read, with its text.
ImportPick(s, r, t) == [some |-> s, readable |-> r, text |-> t]
ImportPicks ==
    {ImportPick(FALSE, FALSE, <<>>), ImportPick(TRUE, FALSE, <<>>),
     ImportPick(TRUE, TRUE, <<" ", "w", "w", "\n">>)}

\* What the save dialog of export hands back: nothing, or the name to save under,
\* with whether File::create and the write go through.
SavePick(s, n, c, w) == [some |-> s, name |-> n, create_ok |-> c, write_ok |-> w]
SavePicks ==
    {SavePick(FALSE, "a", FALSE, FALSE)}
        \cup {SavePick(TRUE, n, TRUE, TRUE) : n \in DiskNames}
        \cup {SavePick(TRUE, "a", FALSE, FALSE), SavePick(TRUE, "a", TRUE, FALSE)}

\* The result of a handler on the whole App: the abort if any, the registry, the
\* error windows, the buffers, the output folder and the with_out_files call.
Outcome(p, self, ew, u, d, b) ==
    [panic |-> p, self |-> self, ew |-> ew, ui |-> u, disk |-> d, batch |-> b]

\* The text an error window is registered under.
what_of(name) ==
    CASE name = "segment" -> "segment.what"
      [] name = "segment-granular" -> "segment-granular.what"
      [] name = "search" -> "search.what"
      [] name = "tag" -> "tag.what"

\* App::import with with_pick_file
App_import(u, ew, pick) ==
    IF ~pick.some THEN [ui |-> u, ew |-> ew]
    ELSE LET r == read_to_string([readable |-> pick.readable, text |-> pick.text]) IN
         IF ~r.ok THEN [ui |-> u, ew |-> ErrorWindows_add(ew, "import.what")]
         ELSE [ui |-> [u EXCEPT !.input = trim(r.text)], ew |-> ew]

\* fs::File::create: the file is created, or truncated if it exists.
File_create(d, name, ok) ==
    IF ok THEN [ok |-> TRUE, disk |-> [d EXCEPT ![name] = <<>>]]
    ELSE [ok |-> FALSE, disk |-> d]

\* App::export with with_save_file
App_export(u, ew, d, save) ==
    IF ~save.some THEN [disk |-> d, ew |-> ew]
    ELSE LET c == File_create(d, save.name, save.create_ok) IN
         IF ~c.ok THEN [disk |-> c.disk, ew |-> ErrorWindows_add(ew, "export.what")]
         ELSE LET w == writeln(c.disk, save.name, u.output, save.write_ok) IN
              [disk |-> w.disk,
               ew |-> IF w.ok THEN ew ELSE ErrorWindows_add(ew, "export.what")]

\* App::segment, segment_granular, search and tag
App_operation(op, self, u) == [u EXCEPT !.output = operation_one(op, self, u.separator, u.input)]

\* A batch handler that registers an error window for every input not processed.
RECURSIVE add_times(_, _, _)
add_times(ew, what, n) ==
    IF n = 0 THEN ew ELSE add_times(ErrorWindows_add(ew, what), what, n - 1)

App_operation_batch_each(op, self, u, ew, d, choice, some) ==
    LET r == with_out_files(op, d, self, u.separator, choice, some) IN
    [batch |-> r.batch, disk |-> r.disk,
     ew |-> IF r.batch.res = "err"
            THEN add_times(ew, what_of(op), Len(r.batch.in_paths) - r.batch.k + 1)
            ELSE ew]

\* App::segment_batch, segment_granular_batch, search_batch and tag_batch
App_operation_batch(op, self, u, ew, d, choice, some) ==
    LET r == with_out_files(op, d, self, u.separator, choice, some) IN
    [batch |-> r.batch, disk |-> r.disk,
     ew |-> IF r.batch.res = "err" THEN ErrorWindows_add(ew, what_of(op)) ELSE ew]

(* ------------------------------------------------------------------ *)
(* One call of with_out_files, statement by statement                  *)
(* ------------------------------------------------------------------ *)

\* A batch handler has called with_out_files: the registry is the default one, the
\* separator is what the user typed and the output folder holds what it holds.
BatchInit ==
    /\ idx = DictsDefault.idx
    /\ dicts = DictsDefault.dicts
    /\ word = ""
    /\ freq = <<>>
    /\ tag = ""
    /\ error_windows = ErrorWindowsDefault
    /\ displayed = <<>>
    /\ \E sep \in Separators : ui = [UiDefault EXCEPT !.separator = sep, !.batch_mode = TRUE]
    /\ disk \in Disks
    /\ \E op \in Operations : batch = BatchEntry(op, disk)
    /\ last = [op |-> "default", res |-> "ok"]
    /\ panic = ""
    /\ len0 = Len(dicts)
    /\ removals = 0

\* What a statement of with_out_files leaves behind.
BatchStep(b, d) ==
    /\ batch' = b
    /\ disk' = d
    /\ panic' = IF b.res = "panic" THEN "file_name" ELSE ""
    /\ UNCHANGED <<idx, dicts, last, appVars, loopVars, ui>>

PickFiles(choice) ==
    /\ Running
    /\ batch.pc = "pick_files"
    /\ BatchStep(wof_pick_files(batch, choice), disk)

PickFolder(some) ==
    /\ Running
    /\ batch.pc = "pick_folder"
    /\ BatchStep(wof_pick_folder(batch, some), disk)

ReadInput ==
    /\ Running
    /\ batch.pc = "read"
    /\ BatchStep(wof_read(batch), disk)

CreateOutput ==
    /\ Running
    /\ batch.pc = "create"
    /\ LET r == wof_create(batch, disk) IN BatchStep(r.batch, r.disk)

WriteOutput ==
    /\ Running
    /\ batch.pc = "write"
    /\ LET r == wof_write(batch, disk, Self, ui.separator) IN BatchStep(r.batch, r.disk)

BatchNext ==
    \/ \E choice \in FileChoices : PickFiles(choice)
    \/ \E some \in BOOLEAN : PickFolder(some)
    \/ ReadInput
    \/ CreateOutput
    \/ WriteOutput

SpecBatch == BatchInit /\ [][BatchNext]_vars

(* ------------------------------------------------------------------ *)
(* One App::update with one user action, from states of the program    *)
(* ------------------------------------------------------------------ *)

\* Registries the update may find: the default one, and a single created entry left
\* after removals.
UpdateRegistries ==
    {DictsDefault,
     [idx |-> 0, dicts |-> <<[name |-> File("f"), jieba |-> LoadedJieba]>>]}

\* The word and frequency fields it may find.
UpdateFields == {<<"w", <<>>>>, <<"w", <<"x">>>>}

\* The error windows it may find: none, or one that the user has closed.
UpdateErrorWindows ==
    {ErrorWindowsDefault,
     [count |-> u32(1),
      windows |-> <<[id |-> Id_new(u32(0)), open |-> FALSE, what |-> "import.what"]>>]}

\* The buffers it may find, in either mode.
UpdateUis ==
    {[u EXCEPT !.batch_mode = m] :
        u \in {[UiDefault EXCEPT !.input = <<"w", " ", "w">>],
               [input |-> <<"w", "w">>, output |-> <<"w", "\n", "w">>,
                separator |-> <<" ", "/", " ">>, batch_mode |-> FALSE]},
        m \in BOOLEAN}

\* The output folder it may find.
UpdateDisks == {DiskEmpty, [DiskEmpty EXCEPT !["a"] = OldText]}

UpdateInit ==
    /\ \E r \in UpdateRegistries : idx = r.idx /\ dicts = r.dicts
    /\ \E f \in UpdateFields : word = f[1] /\ freq = f[2]
    /\ tag = ""
    /\ error_windows \in UpdateErrorWindows
    /\ displayed = <<>>
    /\ ui \in UpdateUis
    /\ disk \in UpdateDisks
    /\ batch = BatchIdle
    /\ last = [op |-> "default", res |-> "ok"]
    /\ panic = ""
    /\ len0 = Len(dicts)
    /\ removals = 0

\* The user action of an update: its handler's name, whether its dialog was
\* cancelled, and what the handler's fallible calls came to.
Event(name, cancelled, res) ==
    [op |-> "update", event |-> name, cancelled |-> cancelled, res |-> res]

\* One App::update: error_windows.show_all (cleanup, then show), then the action's
\* handler.
Frame(o, event) ==
    /\ idx' = o.self.idx
    /\ dicts' = o.self.dicts
    /\ error_windows' = o.ew
    /\ panic' = o.panic
    /\ ui' = o.ui
    /\ disk' = o.disk
    /\ batch' = o.batch
    /\ displayed' = shown(Cleaned)
    /\ last' = event
    /\ UNCHANGED <<word, freq, tag, loopVars>>

Fresh == last.op = "default" /\ Running

DoNewDict(pick) ==
    /\ Fresh
    /\ LET h == App_new_dict(Self, Cleaned, pick)
           res == IF ~pick.some THEN "ok"
                  ELSE IF pick.file_name = NoFileName THEN "panic"
                  ELSE IF ~pick.open_ok \/ ~jieba_with_dict(pick.src).ok THEN "err"
                  ELSE "ok"
       IN Frame(Outcome(h.panic, h.self, h.ew, ui, disk, batch),
                Event("new-dict", ~pick.some, res))

DoLoadDict(pick) ==
    /\ Fresh
    /\ LET h == App_load_dict(Self, Cleaned, pick)
           res == IF ~pick.some THEN "ok"
                  ELSE IF ~pick.open_ok \/ ~jieba_load_dict(selected(Self), pick.src).ok
                       THEN "err"
                  ELSE "ok"
       IN Frame(Outcome(h.panic, h.self, h.ew, ui, disk, batch),
                Event("load-dict", ~pick.some, res))

DoAddWord ==
    /\ Fresh
    /\ can_add_word(word)
    /\ LET h == App_add_word(Self, Cleaned, word, freq, tag)
           res == IF freq # <<>> /\ ~parse_usize(freq).ok THEN "err" ELSE "ok"
       IN Frame(Outcome(h.panic, h.self, h.ew, ui, disk, batch),
                Event("add-word", FALSE, res))

DoRemoveDict ==
    /\ Fresh
    /\ remove_enabled(Self)
    /\ LET h == App_remove_dict(Self, Cleaned) IN
       Frame(Outcome(h.panic, h.self, h.ew, ui, disk, batch),
             Event("remove-dict", FALSE, "ok"))

\* show_input_area: the import button is enabled outside batch mode.
DoImport(pick) ==
    /\ Fresh
    /\ ~ui.batch_mode
    /\ LET h == App_import(ui, Cleaned, pick) IN
       Frame(Outcome("", Self, h.ew, h.ui, disk, batch),
             Event("import", ~pick.some,
                   IF pick.some /\ ~pick.readable THEN "err" ELSE "ok"))

\* show_output_area: the export button is enabled outside batch mode.
DoExport(save) ==
    /\ Fresh
    /\ ~ui.batch_mode
    /\ LET h == App_export(ui, Cleaned, disk, save) IN
       Frame(Outcome("", Self, h.ew, ui, h.disk, batch),
             Event("export", ~save.some,
                   IF save.some /\ (~save.create_ok \/ ~save.write_ok) THEN "err" ELSE "ok"))

\* show_output_area: an operation's button outside batch mode.
DoOperation(op) ==
    /\ Fresh
    /\ ~ui.batch_mode
    /\ Frame(Outcome("", Self, Cleaned, App_operation(op, Self, ui), disk, batch),
             Event(op, FALSE, "ok"))

\* show_output_area: an operation's button in batch mode.
DoOperationBatch(op, choice, some) ==
    /\ Fresh
    /\ ui.batch_mode
    /\ LET h == App_operation_batch(op, Self, ui, Cleaned, disk, choice, some) IN
       Frame(Outcome(IF h.batch.res = "panic" THEN "file_name" ELSE "",
                     Self, h.ew, ui, h.disk, h.batch),
             Event(op, ~choice.some \/ ~some, h.batch.res))

\* The batch mode checkbox.
DoToggleBatch ==
    /\ Fresh
    /\ Frame(Outcome("", Self, Cleaned, [ui EXCEPT !.batch_mode = ~@], disk, batch),
             Event("batch-mode", FALSE, "ok"))

UpdateNext ==
    \/ \E pick \in Picks : DoNewDict(pick)
    \/ \E pick \in Picks : DoLoadDict(pick)
    \/ DoAddWord
    \/ DoRemoveDict
    \/ \E pick \in ImportPicks : DoImport(pick)
    \/ \E save \in SavePicks : DoExport(save)
    \/ \E op \in Operations : DoOperation(op)
    \/ \E op \in Operations, choice \in FileChoices, some \in BOOLEAN :
          DoOperationBatch(op, choice, some)
    \/ DoToggleBatch

SpecUpdate == UpdateInit /\ [][UpdateNext]_vars

(* ------------------------------------------------------------------ *)
(* The error windows driven call by call (as tests::error_windows      *)
(* drives them) and shown by show_all                                  *)
(* ------------------------------------------------------------------ *)

\* Windows are added only while the list holds fewer than this many, and the count
\* is below it or at the top of its range.
MaxRecords == 3

\* The keys windows are added under.
Whats == {"import.what", "export.what"}

\* The error windows at the start: none yet, or the first window still open after
\* u32::MAX - 1 windows have been added and the others dismissed.
ErrorsInits ==
    {ErrorWindowsDefault,
     [count |-> [hi |-> HalfMax, lo |-> HalfMax - 1],
      windows |-> <<[id |-> Id_new(u32(0)), open |-> TRUE, what |-> "import.what"]>>]}

ErrorsInit ==
    /\ idx = DictsDefault.idx
    /\ dicts = DictsDefault.dicts
    /\ word = ""
    /\ freq = <<>>
    /\ tag = ""
    /\ ui = UiDefault
    /\ error_windows \in ErrorsInits
    /\ last = [op |-> "default", res |-> "ok"]
    /\ panic = ""
    /\ len0 = Len(dicts)
    /\ removals = 0
    /\ IoIdle

\* What a call on the error windows leaves behind.
ErrorsStep(op, ew, seen, p) ==
    /\ error_windows' = ew
    /\ displayed' = seen
    /\ last' = [op |-> op, res |-> IF p = "" THEN "ok" ELSE "panic"]
    /\ panic' = p
    /\ UNCHANGED <<idx, dicts, word, freq, tag, loopVars, ioVars>>

\* ErrorWindows::add; where the count overflows, either build's outcome.
ErrorsAdd(what) ==
    /\ Running
    /\ Len(error_windows.windows) < MaxRecords
    /\ error_windows.count.hi # 0 \/ error_windows.count.lo < MaxRecords
    /\ \/ ErrorsStep("add", ErrorWindows_add(error_windows, what), displayed, "")
       \/ /\ add_overflows(error_windows)
          /\ ErrorsStep("add", ErrorWindows_add_checked(error_windows, what), displayed,
                        "count")

\* The open flag of a window is set to false from outside.
ErrorsMarkClosed(k) ==
    /\ Running
    /\ error_windows.windows[k].open
    /\ ErrorsStep("close", [error_windows EXCEPT !.windows[k].open = FALSE], displayed, "")

\* ErrorWindows::cleanup
ErrorsCleanup ==
    /\ Running
    /\ ErrorsStep("cleanup", ErrorWindows_cleanup(error_windows), displayed, "")

\* ErrorWindows::show_all, first thing in App::update
ErrorsShowAll(closing) ==
    /\ Running
    /\ LET r == ErrorWindows_show_all(error_windows, closing) IN
       ErrorsStep("show_all", r.ew, r.displayed, "")

ErrorsNext ==
    \/ \E what \in Whats : ErrorsAdd(what)
    \/ \E k \in 1..Len(error_windows.windows) : ErrorsMarkClosed(k)
    \/ ErrorsCleanup
    \/ \E closing \in SUBSET (1..Len(error_windows.windows)) : ErrorsShowAll(closing)

SpecErrors == ErrorsInit /\ [][ErrorsNext]_vars

(* ------------------------------------------------------------------ *)
(* Properties of the registry                                          *)
(* ------------------------------------------------------------------ *)

\* A source with a malformed line somewhere: a frequency field that is no usize.
Malformed(src) == \E i \in 1..Len(src) : Len(src[i]) >= 2 /\ ~parse_usize(src[i][2]).ok

\* The text denotes a non-negative integer: digits with an optional sign, the sign
\* "-" only before zero.
DenotesNat(text) ==
    LET signed == text # <<>> /\ Head(text) \in {"+", "-"}
        body == IF signed THEN Tail(text) ELSE text
    IN /\ body # <<>>
       /\ \A i \in 1..Len(body) : body[i] \in Digits
       /\ (Head(text) = "-" => \A i \in 1..Len(body) : body[i] = "0")

\* C1: after every sequence of registry operations from the default registry
\* (removal only when can_remove_dict holds) the registry is non-empty and
\* 0 <= idx < dicts.len().
C1_RegistryInvariants ==
    /\ Len(dicts) >= 1
    /\ 0 <= idx
    /\ idx < Len(dicts)

\* C1 witness: a removal that took the last position of a registry holding a
\* created entry.
C1_Witness ==
    /\ last = [op |-> "remove_dict", res |-> "ok"]
    /\ idx = Len(dicts) - 1
    /\ \E k \in 1..Len(dicts) : dicts[k].name.variant = "File"

\* C2: remove_dict on more than one entry removes exactly the entry at idx; if that
\* was the last index, idx becomes the new last index (idx - 1), otherwise idx keeps
\* its number and designates the entry formerly at idx + 1.
C2_RemoveSelected ==
    [][(last'.op = "remove_dict" /\ Len(dicts) > 1) =>
          /\ last'.res = "ok"
          /\ Len(dicts') = Len(dicts) - 1
          /\ \A k \in 1..Len(dicts') :
                dicts'[k] = IF k <= idx THEN dicts[k] ELSE dicts[k + 1]
          /\ (idx = Len(dicts) - 1 => idx' = idx - 1 /\ idx' = Len(dicts') - 1)
          /\ (idx < Len(dicts) - 1 => idx' = idx /\ dicts'[idx' + 1] = dicts[idx + 2])
      ]_vars

\* C2 witness: a removal that left the selection on an inner position.
C2_Witness ==
    /\ last = [op |-> "remove_dict", res |-> "ok"]
    /\ Len(dicts) = 2
    /\ idx = 0

\* C3: for every registry the program can hold, can_remove_dict is true exactly
\* when there is more than one entry.
C3_CanRemoveIffMany == can_remove_dict(Self) <=> Len(dicts) > 1

\* C3 witness: removals have brought the registry down to one entry.
C3_Witness ==
    /\ last.op = "remove_dict"
    /\ Len(dicts) = 1
    /\ ~can_remove_dict(Self)

\* C7: a successful new_dict(name, source) appends one entry with that name at the
\* end, leaves idx unchanged and leaves every earlier entry as it was.
C7_CreateAppends ==
    [][(last'.op = "new_dict" /\ last'.res = "ok") =>
          \A name \in FileNames, src \in Sources :
              NewDict(name, src) =>
                  /\ Len(dicts') = Len(dicts) + 1
                  /\ dicts'[Len(dicts')].name = File(name)
                  /\ SubSeq(dicts', 1, Len(dicts)) = dicts
                  /\ idx' = idx
      ]_vars

\* C7 witness: a created entry at the end while the selection is elsewhere.
C7_Witness ==
    /\ last = [op |-> "new_dict", res |-> "ok"]
    /\ dicts[Len(dicts)].name.variant = "File"
    /\ idx < Len(dicts) - 1

\* C8: new_dict on malformed vocabulary data returns an error and leaves the
\* registry as it was: same entries, same order, same idx, nothing appended.
C8_CreateFailureUnchanged ==
    [][last'.op = "new_dict" =>
          \A name \in FileNames, src \in Sources :
              (Malformed(src) /\ NewDict(name, src)) =>
                  /\ last'.res = "err"
                  /\ dicts' = dicts
                  /\ idx' = idx
      ]_vars

\* C8 witness: a create that returned an error.
C8_Witness == last = [op |-> "new_dict", res |-> "err"]

\* C9 (as claimed): load_dict on a source with a malformed line returns an error
\* and leaves the selected entry's vocabulary exactly as it was.
C9_MergeAllOrNothing ==
    [][last'.op = "load_dict" =>
          \A src \in Sources :
              (Malformed(src) /\ LoadDict(src)) =>
                  /\ last'.res = "err"
                  /\ dicts' = dicts
      ]_vars

\* C10: add_word with a non-empty frequency text that is no non-negative integer
\* returns an error and leaves the whole registry unchanged.
C10_AddWordBadFreq ==
    [][last'.op = "add_word" =>
          \A f \in {x \in FreqTexts : x # <<>> /\ ~DenotesNat(x)}, w \in Words, t \in TagTexts :
              AddWord(w, f, t) =>
                  /\ last'.res = "err"
                  /\ dicts' = dicts
                  /\ idx' = idx
      ]_vars

\* C10 witness: an add_word that returned an error on a registry whose selected
\* entry holds no record for the word.
C10_Witness ==
    /\ last = [op |-> "add_word", res |-> "err"]
    /\ \E w \in Words : dicts[idx + 1].jieba[w] = NoRecord

\* The text is a non-negative integer written in decimal digits.
DecimalText(text) == text # <<>> /\ \A i \in 1..Len(text) : text[i] \in Digits

C4_RemoveNeverAborts ==
    /\ [](panic # "remove_dict")
    /\ [][ClickRemoveDict => (can_remove_dict(Self) /\ Len(dicts) > 1 /\ Len(dicts') >= 1)]_vars
    /\ [](Running => (ENABLED ClickRemoveDict <=> can_remove_dict(Self)))

\* C4 witness: remove clicks have left one entry, a created one, after a failed
\* handler left an error record.
C4_Witness ==
    /\ panic = ""
    /\ Len(dicts) = 1
    /\ dicts[1].name.variant = "File"
    /\ dicts[1].jieba # EmptyJieba
    /\ error_windows.count = u32(1)

\* C5: remove_dict called with a single entry aborts on its assertion before
\* removing anything: it does not return, the registry keeps its entry, and no call
\* ever leaves a registry with zero entries.
C5_RemoveLastAborts ==
    /\ [][(last'.op = "remove_dict" /\ Len(dicts) = 1) =>
              /\ panic' = "remove_dict"
              /\ last'.res = "panic"
              /\ dicts' = dicts
              /\ idx' = idx
         ]_vars
    /\ [](Len(dicts) >= 1)

\* C5 witness: the process aborted in remove_dict with its single entry in place.
C5_Witness ==
    /\ panic = "remove_dict"
    /\ Len(dicts) = 1
    /\ idx = 0

\* C6: from any registry with n >= 1 entries and any valid idx, removing while
\* can_remove_dict holds ends after exactly n - 1 removals with one entry, idx = 0
\* and can_remove_dict false; the invariants hold after each removal.
C6_LoopTerminates ==
    /\ [](/\ panic = ""
          /\ Len(dicts) >= 1 /\ 0 <= idx /\ idx < Len(dicts)
          /\ removals + Len(dicts) = len0
          /\ (~can_remove_dict(Self) => removals = len0 - 1 /\ Len(dicts) = 1 /\ idx = 0))
    /\ <>[](~can_remove_dict(Self) /\ removals = len0 - 1)

\* C6 witness: the loop has ended after removing all but one of several entries.
C6_Witness ==
    /\ len0 >= 3
    /\ removals = len0 - 1
    /\ Len(dicts) = 1
    /\ ~can_remove_dict(Self)

(* ------------------------------------------------------------------ *)
(* Properties of a batch run                                           *)
(* ------------------------------------------------------------------ *)

\* The inputs (by position) for which a file-system call has been made.
Called(call) == {batch.log[j][2] : j \in {i \in 1..Len(batch.log) : batch.log[i][1] = call}}

\* The inputs whose output has been written.
WrittenInputs == {i \in Called("write") : batch.in_paths[i].write_ok}

\* The output file of the i-th input and what it is to hold.
OutName(i) == batch.in_paths[i].file_name
Expected(i) ==
    operation_one(batch.op, Self, ui.separator, trim(batch.in_paths[i].text)) \o <<"\n">>

\* The rank of a call within one loop turn.
CallRank(call) == CASE call = "read" -> 1 [] call = "create" -> 2 [] call = "write" -> 3

\* C12: a batch run takes its inputs one after the other in the order given and
\* stops at the first failure: at every point the inputs read, and the inputs whose
\* output is written, are the first so many of the order, the written outputs are on
\* disk as written, and after a failure at input k no later input has been read and
\* no output of a later input created, all outputs before k being written.
C12_SequentialPrefix ==
    /\ \A i, j \in 1..Len(batch.log) :
          i < j => \/ batch.log[i][2] < batch.log[j][2]
                   \/ /\ batch.log[i][2] = batch.log[j][2]
                      /\ CallRank(batch.log[i][1]) < CallRank(batch.log[j][1])
    /\ Called("read") = 1..Cardinality(Called("read"))
    /\ WrittenInputs = 1..Cardinality(WrittenInputs)
    /\ \A i \in WrittenInputs : disk[OutName(i)] = Expected(i)
    /\ batch.res = "err" =>
          /\ \A j \in 1..Len(batch.log) : batch.log[j][2] <= batch.k
          /\ WrittenInputs = 1..(batch.k - 1)
          /\ \A i \in 1..(batch.k - 1) : disk[OutName(i)] = Expected(i)

\* C12 witness: a run over three inputs has failed at the second with the first
\* one's output written.
C12_Witness ==
    /\ batch.res = "err"
    /\ Len(batch.in_paths) = 3
    /\ batch.k = 2
    /\ WrittenInputs = {1}
    /\ disk[OutName(1)] = Expected(1)

\* C13: a batch run never changes a file that was in the output folder before it:
\* when it comes to create the output of an input whose base name is taken there,
\* it fails at that input, and writes no output for it or for any later input.
C13_NoOverwrite ==
    /\ \A n \in DiskNames : batch.before[n] # Absent => disk[n] = batch.before[n]
    /\ \A i \in Called("create") :
          batch.before[OutName(i)] # Absent =>
              /\ batch.res = "err"
              /\ batch.k = i
              /\ \A j \in WrittenInputs : j < i
              /\ \A j \in Called("create") \cup Called("read") : j <= i

\* C13 witness: the run has failed at its second input, whose base name was taken
\* in the output folder, after writing the first one's output.
C13_Witness ==
    /\ batch.res = "err"
    /\ batch.k = 2
    /\ Len(batch.in_paths) = 3
    /\ batch.before[OutName(2)] = OldText
    /\ disk[OutName(2)] = OldText
    /\ 2 \in Called("create")
    /\ WrittenInputs = {1}

\* The files that are in the output folder now and were not before the run.
NewFiles == {n \in DiskNames : batch.before[n] = Absent /\ disk[n] # Absent}

\* C14: when a batch run over N inputs returns Ok, the output folder holds exactly N
\* new files, one per input, each under its input's base name and holding the
\* operation's result on the trimmed input text and then one newline; every other
\* file of the folder is as it was.
C14_SuccessOutputs ==
    (batch.pc = "done" /\ batch.res = "ok" /\ batch.k >= 1) =>
        /\ batch.k = Len(batch.in_paths)
        /\ Cardinality(NewFiles) = Len(batch.in_paths)
        /\ NewFiles = {OutName(i) : i \in 1..Len(batch.in_paths)}
        /\ \A i \in 1..Len(batch.in_paths) : disk[OutName(i)] = Expected(i)
        /\ \A n \in DiskNames \ NewFiles : disk[n] = batch.before[n]

\* C14 witness: a tagging run over two inputs, one of them with blanks around its
\* text, has returned Ok.
C14_Witness ==
    /\ batch.pc = "done"
    /\ batch.res = "ok"
    /\ batch.op = "tag"
    /\ Len(batch.in_paths) = 2
    /\ batch.in_paths[1].text = <<" ", "w", "\n">>
    /\ disk[OutName(1)] = <<"w", " ", "x", "\n">>
    /\ NewFiles = DiskNames

(* ------------------------------------------------------------------ *)
(* Properties of the handlers                                          *)
(* ------------------------------------------------------------------ *)

\* C15: a cancelled file dialog is no error and changes nothing: when the picker of
\* new, load, import or export, or the files picker or the folder picker of a batch
\* operation, hands back nothing, the handler's call returns Ok, no file is read,
\* created or written, the registry, the buffers and the output folder are as
\* before, and no error window is added.
C15_CancelNoOp ==
    [][(last'.op = "update" /\ last'.cancelled) =>
          /\ last'.res = "ok"
          /\ panic' = ""
          /\ idx' = idx
          /\ dicts' = dicts
          /\ ui' = ui
          /\ <<word', freq', tag'>> = <<word, freq, tag>>
          /\ disk' = disk
          /\ batch'.log = <<>>
          /\ error_windows' = Cleaned
      ]_vars

\* C15 witness: a batch operation whose files picker gave two inputs and whose
\* folder picker was cancelled, in an output folder that holds a file.
C15_Witness ==
    /\ last.op = "update"
    /\ last.cancelled
    /\ last.event \in Operations
    /\ Len(batch.in_paths) = 2
    /\ disk # DiskEmpty
    /\ error_windows.windows = <<>>

\* The category an action's error window carries.
CategoryOf(name) ==
    CASE name = "segment" -> "segment.what"
      [] name = "segment-granular" -> "segment-granular.what"
      [] name = "search" -> "search.what"
      [] name = "tag" -> "tag.what"
      [] name = "new-dict" -> "new-dict.what"
      [] name = "load-dict" -> "load-dict.what"
      [] name = "add-word" -> "add-word.what"
      [] name = "import" -> "import.what"
      [] name = "export" -> "export.what"
      [] OTHER -> "none"

\* C16: every user action adds at most one error window: an action whose handler's
\* call failed -- a batch run too, however many inputs were left -- adds exactly
\* one, open and last in the list, under the category of that action; an action that
\* succeeded adds none.
C16_OneErrorPerAction ==
    [][last'.op = "update" =>
          /\ error_windows'.count \in {error_windows.count, wrapping_succ(error_windows.count)}
          /\ Len(error_windows'.windows) - Len(Cleaned.windows) \in {0, 1}
          /\ last'.res = "err" =>
                error_windows' =
                    [count |-> wrapping_succ(error_windows.count),
                     windows |-> Append(Cleaned.windows,
                                        [id |-> Id_new(error_windows.count), open |-> TRUE,
                                         what |-> CategoryOf(last'.event)])]
          /\ last'.res = "ok" => error_windows' = Cleaned
      ]_vars

\* C16 witness: a search batch over three inputs has failed at the first and left
\* one error window.
C16_Witness ==
    /\ last.op = "update"
    /\ last.event = "search"
    /\ last.res = "err"
    /\ Len(batch.in_paths) = 3
    /\ batch.k = 1
    /\ Len(error_windows.windows) = 1
    /\ error_windows.windows[1].what = "search.what"

\* C17 (as claimed): only the removal of the last dictionary can abort the process:
\* no other user action aborts, and every failure of new, load, add-word, import,
\* export or a batch run ends as an error window.
C17_OnlyRemovalAborts ==
    [][last'.op = "update" =>
          /\ panic' # "" => last'.event = "remove-dict"
          /\ (last'.res # "ok" /\ last'.event # "remove-dict") =>
                /\ Len(error_windows'.windows) = Len(Cleaned.windows) + 1
                /\ error_windows'.windows[Len(error_windows'.windows)].what
                       = CategoryOf(last'.event)
      ]_vars

(* ------------------------------------------------------------------ *)
(* Properties of the error windows                                     *)
(* ------------------------------------------------------------------ *)

IsOpen(w) == w.open

\* The number a window's id was made from.
IdCount(w) == w.id.hashed

\* C18 (as claimed): add never fails and appends one window with open = true at
\* the end of the list; over any interleaving of add and cleanup the ids of the
\* windows are pairwise distinct and increase in the order of creation, each new id
\* above every id given before, so no id is used again.
C18_FreshIdentifiers ==
    /\ [](panic = "")
    /\ [][last'.op = "add" =>
              /\ Len(error_windows'.windows) = Len(error_windows.windows) + 1
              /\ SubSeq(error_windows'.windows, 1, Len(error_windows.windows))
                     = error_windows.windows
              /\ error_windows'.windows[Len(error_windows'.windows)].open
              /\ u32_less(error_windows.count, error_windows'.count)
         ]_vars
    /\ [](\A i, j \in 1..Len(error_windows.windows) :
              i < j => u32_less(IdCount(error_windows.windows[i]),
                                IdCount(error_windows.windows[j])))
    /\ [](\A i \in 1..Len(error_windows.windows) :
              u32_less(IdCount(error_windows.windows[i]), error_windows.count))

\* C19: cleanup removes exactly the windows whose open flag is false and keeps
\* every open window, unchanged and in the same relative order; if all were closed
\* the list is empty afterwards.  The count is not touched.
C19_CleanupKeepsOpen ==
    [][last'.op = "cleanup" =>
          /\ error_windows'.windows = SelectSeq(error_windows.windows, IsOpen)
          /\ \A k \in 1..Len(error_windows'.windows) : error_windows'.windows[k].open
          /\ Len(error_windows'.windows)
                 = Cardinality({k \in 1..Len(error_windows.windows) :
                                    error_windows.windows[k].open})
          /\ (\A k \in 1..Len(error_windows.windows) : ~error_windows.windows[k].open)
                 => error_windows'.windows = <<>>
          /\ error_windows'.count = error_windows.count
      ]_vars

\* C19 witness: a cleanup has left the first and the third of three windows, the
\* second having been closed.
C19_Witness ==
    /\ last.op = "cleanup"
    /\ error_windows.count = u32(3)
    /\ Len(error_windows.windows) = 2
    /\ error_windows.windows[1].id = Id_new(u32(0))
    /\ error_windows.windows[2].id = Id_new(u32(2))

\* C20: in every show_all the cleanup comes before any window is shown: the windows
\* shown are exactly those that were open when show_all began, in order, each with
\* open = true as its display starts, and a window that was closed before is neither
\* shown nor kept in the list, so that no later show_all can show it.
C20_CleanupBeforeDisplay ==
    [][last'.op = "show_all" =>
          /\ displayed' = SelectSeq(error_windows.windows, IsOpen)
          /\ \A i \in 1..Len(displayed') : displayed'[i].open
          /\ Len(error_windows'.windows) = Len(displayed')
          /\ \A i \in 1..Len(displayed') :
                [error_windows'.windows[i] EXCEPT !.open = TRUE] = displayed'[i]
      ]_vars

\* C20 witness: a show_all has shown two windows and not the one between them that
\* was closed before, and the user has closed one of the two while it was shown.
C20_Witness ==
    /\ last.op = "show_all"
    /\ error_windows.count = u32(3)
    /\ Len(displayed) = 2
    /\ displayed[1].id = Id_new(u32(0))
    /\ displayed[2].id = Id_new(u32(2))
    /\ ~error_windows.windows[2].open

(* ------------------------------------------------------------------ *)
(* Properties of the operations                                        *)
(* ------------------------------------------------------------------ *)

\* The items joined with a separator between each two: built from the last item.
RECURSIVE Joined(_, _)
Joined(items, sep) ==
    IF items = <<>> THEN <<>>
    ELSE IF Len(items) = 1 THEN items[1]
    ELSE Joined(SubSeq(items, 1, Len(items) - 1), sep) \o sep \o items[Len(items)]

\* The result items of an operation on a text.
ItemsOf(op, text) ==
    IF op = "tag" THEN jieba_tag(selected(Self), text) ELSE jieba_cut(selected(Self), text)

\* C21: the separator that joins the result items is a newline when the configured
\* separator is empty and the configured string as it is otherwise, for segment,
\* segment-granular, search and tag, both for the output buffer of the interactive
\* operation and for every output file a batch run has written.
C21_EffectiveSeparator ==
    (last.op = "update" /\ last.event \in Operations) =>
        LET effective == IF ui.separator = <<>> THEN <<"\n">> ELSE ui.separator IN
        /\ ~ui.batch_mode => ui.output = Joined(ItemsOf(last.event, ui.input), effective)
        /\ ui.batch_mode =>
               \A i \in WrittenInputs :
                   disk[OutName(i)]
                       = Joined(ItemsOf(last.event, trim(batch.in_paths[i].text)), effective)
                             \o <<"\n">>

\* C21 witness: a segment batch under the separator " / " has written the output of
\* an input of two items.
C21_Witness ==
    /\ last.op = "update"
    /\ last.event = "segment"
    /\ ui.batch_mode
    /\ ui.separator = <<" ", "/", " ">>
    /\ \E i \in WrittenInputs :
           /\ batch.in_paths[i].text = <<"w", "w">>
           /\ disk[OutName(i)] = <<"w", " ", "/", " ", "w", "\n">>

\* C22: add_word and load_dict touch only the selected entry: whether they return
\* Ok or Err, the number and the order of the entries, idx, every entry's name and
\* the vocabulary of every entry that is not selected are as before.
C22_OnlySelectedTouched ==
    [][last'.op \in {"add_word", "load_dict"} =>
          /\ last'.res \in {"ok", "err"}
          /\ idx' = idx
          /\ Len(dicts') = Len(dicts)
          /\ \A k \in 1..Len(dicts) :
                /\ dicts'[k].name = dicts[k].name
                /\ k # idx + 1 => dicts'[k].jieba = dicts[k].jieba
      ]_vars

\* C22 witness: a load_dict that returned an error has left a record in the
\* vocabulary of the selected entry, the second one, the first entry's vocabulary
\* being empty still.
C22_Witness ==
    /\ last = [op |-> "load_dict", res |-> "err"]
    /\ idx = 1
    /\ Len(dicts) >= 2
    /\ dicts[2].jieba # EmptyJieba
    /\ dicts[1].jieba = EmptyJieba

\* The positions of the log at which a call was made for the i-th input.
CallsAt(call, i) == {j \in 1..Len(batch.log) : batch.log[j] = <<call, i>>}

\* C23: in a batch run every input has at most one output file created for it, and
\* only after the input was read successfully: for an input whose read failed no
\* create is called, and the file of its base name in the output folder is what was
\* there before the run or the output of an earlier input, never a file (empty or
\* not) made for it.
C23_OneOutputAfterRead ==
    /\ \A i \in 1..Len(batch.in_paths) :
          /\ Cardinality(CallsAt("create", i)) <= 1
          /\ Cardinality(CallsAt("read", i)) <= 1
          /\ \A c \in CallsAt("create", i) :
                /\ batch.in_paths[i].readable
                /\ \E r \in CallsAt("read", i) : r < c
    /\ Cardinality(NewFiles) <= Cardinality(Called("create"))
    /\ \A i \in Called("read") :
          ~batch.in_paths[i].readable =>
              /\ i \notin Called("create")
              /\ i \notin Called("write")
              /\ \/ disk[OutName(i)] = batch.before[OutName(i)]
                 \/ \E j \in 1..(i - 1) :
                        /\ OutName(j) = OutName(i)
                        /\ j \in WrittenInputs
                        /\ disk[OutName(i)] = Expected(j)

\* C23 witness: the read of the second input has failed after the first one's
\* output was written, and the output folder holds no file of the second one's
\* base name.
C23_Witness ==
    /\ batch.res = "err"
    /\ batch.k = 2
    /\ ~batch.in_paths[2].readable
    /\ 2 \in Called("read")
    /\ WrittenInputs = {1}
    /\ disk[OutName(2)] = Absent
    /\ NewFiles = {OutName(1)}

====
